---- MODULE Spec2Model ----
(***************************************************************************)
(* Model of the lemmatize comparison tool (src/main.py).                   *)
(*                                                                         *)
(* A text is a sequence of characters; a character is a string naming it:  *)
(* printable ASCII characters stand for themselves, "NL" and "TAB" are     *)
(* the newline and the tab, and "U+XXXX" is the code point XXXX.           *)
(***************************************************************************)
EXTENDS Integers, Sequences, FiniteSets, TLC

VARIABLES
    raw,            \* normalize_text: the argument `text`
    normalized,     \* normalize_text: the local `normalized`
    renormalized,   \* normalize_text applied to a normalized text
    npc,            \* normalize_text: the statement to execute next
    pc,             \* main: the statement to execute next
    reads,          \* how many times each input file has been opened
    error,          \* the file whose access raised the unhandled OSError
    token,          \* extract_lemmas: the loop variable `token`
    ntok,           \* extract_lemmas: how many tokens of `doc` were iterated
    words,          \* extract_lemmas: the local `words`
    skipped,        \* extract_lemmas: the local `skipped`
    target_counter, target_skipped, ref_counter, ref_skipped, diff_counter,
    files,          \* the output directory: what each CSV file holds
    tally           \* history: per input file, the tokens counted and skipped

nvars == <<raw, normalized, renormalized, npc>>
mvars == <<pc, reads, error, token, ntok, words, skipped, target_counter,
           target_skipped, ref_counter, ref_skipped, diff_counter, files, tally>>
vars == <<nvars, mvars>>

(***************************************************************************)
(* Bounds of the model.                                                    *)
(***************************************************************************)
MaxTextLen == 3
MaxLemmaLen == 2
MaxTokens == 3

(***************************************************************************)
(* Sequence helpers.                                                       *)
(***************************************************************************)
RECURSIVE Flatten(_)
Flatten(ss) == IF ss = <<>> THEN <<>> ELSE Head(ss) \o Flatten(Tail(ss))

SeqsUpTo(S, n) == UNION {[1..k -> S] : k \in 0..n}

(***************************************************************************)
(* Characters of the normalizer's input alphabet.                          *)
(***************************************************************************)
NormChars ==
    { "a", "1", ".", " ", "NL", "(",
      "U+3001",     \* ideographic comma
      "U+FF0C",     \* fullwidth comma
      "U+3002",     \* ideographic full stop
      "U+FF0E",     \* fullwidth full stop
      "U+30FB",     \* katakana middle dot
      "U+301C",     \* wave dash
      "U+3042",     \* hiragana letter a
      "U+F900" }    \* CJK compatibility ideograph

\* unicodedata.normalize("NFKC", c) for one character of the alphabet.  None
\* of these characters is a combining mark or composes with its neighbour,
\* so NFKC of a text is the concatenation of its characters' images.
NFKCChar(c) ==
    CASE c = "U+FF0C" -> <<",">>
      [] c = "U+FF0E" -> <<".">>
      [] c = "U+FF5E" -> <<"~">>
      [] c = "U+F900" -> <<"U+8C48">>
      [] c = "U+3000" -> <<" ">>
      [] c = "U+FF65" -> <<"U+30FB">>
      [] c = "U+2488" -> <<"1", ".">>
      [] OTHER -> <<c>>

NFKC(t) == Flatten([i \in 1..Len(t) |-> NFKCChar(t[i])])

\* str.replace(old, new) for a one-character `old`.
Replace(t, old, new) ==
    Flatten([i \in 1..Len(t) |-> IF t[i] = old THEN new ELSE <<t[i]>>])

\* The four punctuation replacements of lines 30-33, in order.
ReplacePunct(t) ==
    Replace(Replace(Replace(Replace(t, "U+3001", <<",", " ">>),
                            "U+FF0C", <<",", " ">>),
                    "U+3002", <<".", " ">>),
            "U+FF0E", <<".", " ">>)

\* SymbolChars with a kana letter slipped into the table.
SymbolCharsWithKana ==
    {"U+30FB", "U+2192", "U+21D2", "U+2605", "U+2606", "U+203B", "U+3042"}

SymbolChars == {"U+30FB", "U+2192", "U+21D2", "U+2605", "U+2606", "U+203B"}

\* str.translate with the table of lines 37-46.
TranslateSymbols(t) ==
    [i \in 1..Len(t) |-> IF t[i] \in SymbolChars THEN " " ELSE t[i]]

ReplaceWave(t) == Replace(Replace(t, "U+FF5E", <<"~">>), "U+301C", <<"~">>)

BracketChars == {"[", "]", "(", ")", "{", "}"}

\* re.sub(r"([\[\]\(\){}])", r" \1 ", t)
SpaceBrackets(t) ==
    Flatten([i \in 1..Len(t) |->
                IF t[i] \in BracketChars THEN <<" ", t[i], " ">> ELSE <<t[i]>>])

IsReDigit(c) == c \in {"0", "1", "2", "3"}           \* \d
IsAsciiLetter(c) == c \in {"a", "b", "A", "B"}       \* [A-Za-z]
IsReSpace(c) == c \in {" ", "TAB", "NL"}             \* \s

\* re.sub(r"(\d)\.(?=[A-Za-z])", r"\1. ", t): the matches cannot overlap (the
\* character after a match is a letter, not a digit).
SpaceDigitDot(t) ==
    Flatten([i \in 1..Len(t) |->
                IF /\ t[i] = "."
                   /\ i > 1 /\ IsReDigit(t[i - 1])
                   /\ i < Len(t) /\ IsAsciiLetter(t[i + 1])
                THEN <<".", " ">> ELSE <<t[i]>>])

\* re.sub(r"(^|\s)\.(?=[A-Za-z])", r"\1. ", t): ^ is the start of the string
\* only (no re.MULTILINE).
SpaceLeadingDot(t) ==
    Flatten([i \in 1..Len(t) |->
                IF /\ t[i] = "."
                   /\ (i = 1 \/ IsReSpace(t[i - 1]))
                   /\ i < Len(t) /\ IsAsciiLetter(t[i + 1])
                THEN <<".", " ">> ELSE <<t[i]>>])

\* The first index >= i of t that holds no character of S (Len(t)+1 if none).
RECURSIVE SkipRun(_, _, _)
SkipRun(t, i, S) ==
    IF i <= Len(t) /\ t[i] \in S THEN SkipRun(t, i + 1, S) ELSE i

\* CollapseBlanks left out.
CollapseBlanksOmitted(t) == t

\* re.sub(r"[ \t]+", " ", t), scanning from index i.
RECURSIVE CollapseFrom(_, _)
CollapseFrom(t, i) ==
    IF i > Len(t) THEN <<>>
    ELSE IF t[i] \in {" ", "TAB"}
         THEN <<" ">> \o CollapseFrom(t, SkipRun(t, i, {" ", "TAB"}))
         ELSE <<t[i]>> \o CollapseFrom(t, i + 1)

CollapseBlanks(t) == CollapseFrom(t, 1)

\* re.sub(r" *\n *", "\n", t), scanning from index i: a match starts at i iff
\* the run of spaces from i is followed by a newline.
RECURSIVE TrimFrom(_, _)
TrimFrom(t, i) ==
    IF i > Len(t) THEN <<>>
    ELSE LET j == SkipRun(t, i, {" "})
         IN IF j <= Len(t) /\ t[j] = "NL"
            THEN <<"NL">> \o TrimFrom(t, SkipRun(t, j + 1, {" "}))
            ELSE <<t[i]>> \o TrimFrom(t, i + 1)

TrimAroundNewlines(t) == TrimFrom(t, 1)

normalize_text(t) ==
    TrimAroundNewlines(CollapseBlanks(SpaceLeadingDot(SpaceDigitDot(
        SpaceBrackets(ReplaceWave(TranslateSymbols(ReplacePunct(NFKC(t)))))))))

\* _CJK_RE: the ranges U+3040-309F, U+30A0-30FF, U+3400-4DBF, U+4E00-9FFF and
\* U+F900-FAFF.
InCJKRange(c) == c \in {"U+3042", "U+30FB", "U+65E5", "U+8C48", "U+F900"}

_contains_cjk(t) == \E i \in 1..Len(t) : InCJKRange(t[i])

(***************************************************************************)
(* Python's str predicates, on the characters the model uses.              *)
(***************************************************************************)
IsAlpha(c) == c \in {"a", "b", "A", "B", "U+3042", "U+65E5", "U+8C48", "U+F900"}
IsDigit(c) == c \in {"0", "1", "2", "3", "U+00B2"}      \* str.isdigit
IsNumeric(c) == IsDigit(c) \/ c \in {"U+00BD"}          \* str.isnumeric
\* IsAlnum testing letters only.
IsAlnumLettersOnly(c) == IsAlpha(c)

IsAlnum(c) == IsAlpha(c) \/ IsDigit(c) \/ IsNumeric(c)  \* str.isalnum

\* str.isdigit() of a text: non-empty and all digits.
TextIsDigit(t) == t # <<>> /\ \A i \in 1..Len(t) : IsDigit(t[i])

LowerChar(c) == CASE c = "A" -> "a" [] c = "B" -> "b" [] OTHER -> c

Lower(t) == [i \in 1..Len(t) |-> LowerChar(t[i])]

CurrencyChars == {"$", "U+00A3", "U+20AC"}

\* _CURRENCY_AMOUNT_RE.match(lemma): ^(?:[$ U+00A3 U+20AC])\d
MatchesCurrencyAmount(lemma) ==
    Len(lemma) >= 2 /\ lemma[1] \in CurrencyChars /\ IsReDigit(lemma[2])

None == "None"

\* _skip_reason_for_lemma with the colon tested before the dot.
_skip_reason_colon_first(lemma) ==
    IF lemma = <<>> THEN "empty"
    ELSE IF _contains_cjk(lemma) THEN "contains_cjk"
    ELSE IF \E i \in 1..Len(lemma) : lemma[i] = ":" THEN "contains_colon"
    ELSE IF \E i \in 1..Len(lemma) : lemma[i] = "." THEN "contains_dot"
    ELSE IF \E i \in 1..Len(lemma) : lemma[i] \in BracketChars
         THEN "contains_brackets"
    ELSE IF MatchesCurrencyAmount(lemma) THEN "currency_amount"
    ELSE IF Len(lemma) = 1 /\ lemma # <<"a">> THEN "single_letter"
    ELSE IF ~ \E i \in 1..Len(lemma) : IsAlpha(lemma[i]) \/ IsDigit(lemma[i])
         THEN "no_alnum"
    ELSE None

_skip_reason_for_lemma(lemma) ==
    IF lemma = <<>> THEN "empty"
    ELSE IF _contains_cjk(lemma) THEN "contains_cjk"
    ELSE IF \E i \in 1..Len(lemma) : lemma[i] = "." THEN "contains_dot"
    ELSE IF \E i \in 1..Len(lemma) : lemma[i] = ":" THEN "contains_colon"
    ELSE IF \E i \in 1..Len(lemma) : lemma[i] \in BracketChars
         THEN "contains_brackets"
    ELSE IF MatchesCurrencyAmount(lemma) THEN "currency_amount"
    ELSE IF Len(lemma) = 1 /\ lemma # <<"a">> THEN "single_letter"
    ELSE IF ~ \E i \in 1..Len(lemma) : IsAlpha(lemma[i]) \/ IsDigit(lemma[i])
         THEN "no_alnum"
    ELSE None

(***************************************************************************)
(* Counters: a Counter is the sequence of its items <<key, count>> in      *)
(* insertion order, as a Python dict keeps them.                           *)
(***************************************************************************)
Keys(counter) == {counter[k][1] : k \in 1..Len(counter)}

IndexOf(counter, key) == CHOOSE k \in 1..Len(counter) : counter[k][1] = key

Count(counter, key) ==
    IF key \in Keys(counter) THEN counter[IndexOf(counter, key)][2] ELSE 0

\* Increment storing 1 instead of adding 1.
IncrementOverwrite(counter, key) ==
    IF key \in Keys(counter)
    THEN [counter EXCEPT ![IndexOf(counter, key)] = <<key, 1>>]
    ELSE Append(counter, <<key, 1>>)

\* counter[key] += 1
Increment(counter, key) ==
    IF key \in Keys(counter)
    THEN [counter EXCEPT ![IndexOf(counter, key)] = <<key, @[2] + 1>>]
    ELSE Append(counter, <<key, 1>>)

\* Counter(words)
RECURSIVE CounterFrom(_, _)
CounterFrom(counter, ws) ==
    IF ws = <<>> THEN counter
    ELSE CounterFrom(Increment(counter, Head(ws)), Tail(ws))

CounterOf(ws) == CounterFrom(<<>>, ws)

RECURSIVE Total(_)
Total(counter) ==
    IF counter = <<>> THEN 0 ELSE Head(counter)[2] + Total(Tail(counter))

\* InsertDesc placing an item before the items of equal count.
RECURSIVE InsertDescBeforeTies(_, _)
InsertDescBeforeTies(sorted, item) ==
    IF sorted = <<>> THEN <<item>>
    ELSE IF Head(sorted)[2] > item[2]
         THEN <<Head(sorted)>> \o InsertDescBeforeTies(Tail(sorted), item)
         ELSE <<item>> \o sorted

\* The stable insertion of an item into items sorted by descending count:
\* after every item whose count is at least its own.
RECURSIVE InsertDesc(_, _)
InsertDesc(sorted, item) ==
    IF sorted = <<>> THEN <<item>>
    ELSE IF Head(sorted)[2] >= item[2]
         THEN <<Head(sorted)>> \o InsertDesc(Tail(sorted), item)
         ELSE <<item>> \o sorted

RECURSIVE SortDescFrom(_, _)
SortDescFrom(sorted, items) ==
    IF items = <<>> THEN sorted
    ELSE SortDescFrom(InsertDesc(sorted, Head(items)), Tail(items))

\* Counter.most_common(): sorted(items, key=count, reverse=True), a stable sort.
most_common(counter) == SortDescFrom(<<>>, counter)

\* find_difference as a difference of counts (Counter subtraction).
find_difference_of_counts(target, reference) ==
    LET less == [k \in 1..Len(target) |->
                    <<target[k][1], target[k][2] - Count(reference, target[k][1])>>]
    IN SelectSeq(less, LAMBDA item : item[2] > 0)

find_difference(target, reference) ==
    SelectSeq(target, LAMBDA item : item[1] \notin Keys(reference))

(***************************************************************************)
(* Tokens, as the tokenizer hands them to extract_lemmas.                  *)
(***************************************************************************)
LemmaChars ==
    { "a", "b", "A", "1", ".", ":", "(", "$", "-",
      "U+65E5",     \* a CJK unified ideograph
      "U+00BD" }    \* vulgar fraction one half: numeric, neither letter nor digit

Surfaces == { <<"a">>, <<"1">>, <<"$", "1">>, <<"U+65E5">> }

Tokens ==
    [ text : Surfaces, lemma_ : SeqsUpTo(LemmaChars, MaxLemmaLen),
      is_punct : BOOLEAN, is_space : BOOLEAN, like_num : BOOLEAN ]

Word(text, lemma) ==
    [ text |-> text, lemma_ |-> lemma,
      is_punct |-> FALSE, is_space |-> FALSE, like_num |-> FALSE ]

\* The few tokens the whole-pipeline specification draws its documents from:
\* two words, two tokens that are skipped, and a number.
MainTokens ==
    { Word(<<"A", "b">>, <<"A", "b">>), Word(<<"b", "a">>, <<"b", "a">>),
      Word(<<"U+65E5">>, <<"U+65E5">>), Word(<<"a", ".">>, <<"a", ".">>),
      [Word(<<"1">>, <<"1">>) EXCEPT !.like_num = TRUE] }

NoToken == Word(<<>>, <<>>)

\* What one iteration of the loop of extract_lemmas does with `tok`:
\* "continue" (lines 153, 157), "skip" (lines 164, 169), "fallback" (the
\* continue of line 174) or "append" (line 176).
Outcome(tok) ==
    LET lemma == Lower(tok.lemma_)
        reason == _skip_reason_for_lemma(lemma)
    IN IF tok.is_punct \/ tok.is_space
       THEN [kind |-> "continue", lemma |-> lemma, reason |-> None]
       ELSE IF tok.like_num \/ TextIsDigit(tok.text)
       THEN [kind |-> "continue", lemma |-> lemma, reason |-> None]
       ELSE IF _contains_cjk(tok.text) \/ _contains_cjk(lemma)
       THEN [kind |-> "skip", lemma |-> lemma, reason |-> "contains_cjk"]
       ELSE IF reason # None
       THEN [kind |-> "skip", lemma |-> lemma, reason |-> reason]
       ELSE IF lemma = <<>> \/ ~ \E i \in 1..Len(lemma) : IsAlnum(lemma[i])
       THEN [kind |-> "fallback", lemma |-> lemma, reason |-> None]
       ELSE [kind |-> "append", lemma |-> lemma, reason |-> None]

(***************************************************************************)
(* The output directory.                                                   *)
(***************************************************************************)
target_csv == "target_lemmatized.csv"
ref_csv == "reference_lemmatized.csv"
diff_csv == "not_in_reference.csv"
target_skipped_csv == "target_skipped.csv"
ref_skipped_csv == "reference_skipped.csv"

FileNames ==
    {target_csv, ref_csv, diff_csv, target_skipped_csv, ref_skipped_csv}

\* The order in which main writes them.
SaveOrder ==
    <<target_csv, ref_csv, target_skipped_csv, ref_skipped_csv, diff_csv>>

Absent == [state |-> "absent", rows |-> <<>>]

\* What save_to_csv writes: the header, then most_common()'s items.
WordRows(counter) == <<<<"word", "frequency">>>> \o most_common(counter)

\* What save_skipped_to_csv writes.
SkippedRows(counter) ==
    <<<<"token", "lemma", "reason", "frequency">>>> \o
    [k \in 1..Len(counter) |->
        LET item == most_common(counter)[k]
        IN <<item[1][1], item[1][2], item[1][3], item[2]>>]

(***************************************************************************)
(* normalize_text, statement by statement, on every text of the alphabet   *)
(* up to MaxTextLen characters, followed by a second application to its    *)
(* own result.                                                             *)
(***************************************************************************)
NoTally == [counted |-> 0, skipped |-> 0, lemmas |-> {}, keys |-> {}]

\* main before its first statement; also the pipeline's variables while only
\* normalize_text is run.
MainStart(at) ==
    /\ pc = at
    /\ reads = [f \in {"target", "ref"} |-> 0]
    /\ error = None
    /\ token = NoToken
    /\ ntok = 0
    /\ words = <<>>
    /\ skipped = <<>>
    /\ target_counter = <<>>
    /\ target_skipped = <<>>
    /\ ref_counter = <<>>
    /\ ref_skipped = <<>>
    /\ diff_counter = <<>>
    /\ files = [n \in FileNames |-> Absent]
    /\ tally = [f \in {"target", "ref"} |-> NoTally]

MainIdle == MainStart("idle")

NormIdle ==
    /\ raw = <<>>
    /\ normalized = <<>>
    /\ renormalized = <<>>
    /\ npc = "idle"

NormInit ==
    /\ raw \in SeqsUpTo(NormChars, MaxTextLen)
    /\ normalized = <<>>
    /\ renormalized = <<>>
    /\ npc = "nfkc"
    /\ MainIdle

NormStep(from, to, val) ==
    /\ npc = from
    /\ normalized' = val
    /\ npc' = to
    /\ UNCHANGED <<raw, renormalized, mvars>>

StepNFKC == NormStep("nfkc", "punct", NFKC(raw))
StepPunct == NormStep("punct", "symbols", ReplacePunct(normalized))
StepSymbols == NormStep("symbols", "wave", TranslateSymbols(normalized))
StepWave == NormStep("wave", "brackets", ReplaceWave(normalized))
StepBrackets == NormStep("brackets", "digitdot", SpaceBrackets(normalized))
StepDigitDot == NormStep("digitdot", "leaddot", SpaceDigitDot(normalized))
StepLeadingDot == NormStep("leaddot", "blanks", SpaceLeadingDot(normalized))
StepBlanks == NormStep("blanks", "newlines", CollapseBlanks(normalized))
StepNewlines == NormStep("newlines", "return", TrimAroundNewlines(normalized))

NormalizeAgain ==
    /\ npc = "return"
    /\ renormalized' = normalize_text(normalized)
    /\ npc' = "again"
    /\ UNCHANGED <<raw, normalized, mvars>>

NormNext ==
    \/ StepNFKC
    \/ StepPunct
    \/ StepSymbols
    \/ StepWave
    \/ StepBrackets
    \/ StepDigitDot
    \/ StepLeadingDot
    \/ StepBlanks
    \/ StepNewlines
    \/ NormalizeAgain

SpecNorm == NormInit /\ [][NormNext]_vars

(***************************************************************************)
(* main: the two inputs are loaded and processed, then the five CSV files  *)
(* are written.  Every access to the file system either succeeds or raises *)
(* an OSError, which nothing catches: the run ends there.                  *)
(***************************************************************************)
Init == MainStart("load_target") /\ NormIdle

File(at) == IF at = "load_target" THEN "target" ELSE "ref"

\* load_text succeeds, and extract_lemmas starts on its result: nlp(text) is
\* the tokenizer's, `words` and `skipped` start empty.
Load(at, to) ==
    /\ pc = at
    /\ reads' = [reads EXCEPT ![File(at)] = @ + 1]
    /\ words' = <<>>
    /\ skipped' = <<>>
    /\ ntok' = 0
    /\ token' = NoToken
    /\ pc' = to
    /\ UNCHANGED <<error, target_counter, target_skipped, ref_counter,
                   ref_skipped, diff_counter, files, tally, nvars>>

LoadTarget == Load("load_target", "extract_target")
LoadRef == Load("load_ref", "extract_ref")

\* open() of an input file raises.
LoadFails ==
    /\ pc \in {"load_target", "load_ref"}
    /\ reads' = [reads EXCEPT ![File(pc)] = @ + 1]
    /\ error' = File(pc)
    /\ pc' = "aborted"
    /\ UNCHANGED <<token, ntok, words, skipped, target_counter, target_skipped,
                   ref_counter, ref_skipped, diff_counter, files, tally, nvars>>

Extracting == IF pc = "extract_target" THEN "target" ELSE "ref"

\* One iteration of `for token in doc` (lines 150-176).
ProcessToken(tok) ==
    LET o == Outcome(tok)
        key == <<tok.text, o.lemma, o.reason>>
        f == Extracting
    IN /\ pc \in {"extract_target", "extract_ref"}
       /\ ntok < MaxTokens
       /\ token' = tok
       /\ ntok' = ntok + 1
       /\ words' = IF o.kind = "append" THEN Append(words, o.lemma) ELSE words
       /\ skipped' = IF o.kind = "skip" THEN Increment(skipped, key) ELSE skipped
       /\ tally' =
            IF o.kind = "append"
            THEN [tally EXCEPT ![f].counted = @ + 1,
                               ![f].lemmas = @ \cup {o.lemma}]
            ELSE IF o.kind = "skip"
            THEN [tally EXCEPT ![f].skipped = @ + 1,
                               ![f].keys = @ \cup {key}]
            ELSE tally
       /\ UNCHANGED <<pc, reads, error, target_counter, target_skipped,
                      ref_counter, ref_skipped, diff_counter, files, nvars>>

\* ReturnTarget writing the target's CSV at once, before the reference is read.
ReturnTargetAndSave ==
    /\ pc = "extract_target"
    /\ target_counter' = CounterOf(words)
    /\ target_skipped' = skipped
    /\ files' = [files EXCEPT ![target_csv] =
                    [state |-> "written", rows |-> WordRows(CounterOf(words))]]
    /\ words' = <<>>
    /\ skipped' = <<>>
    /\ ntok' = 0
    /\ token' = NoToken
    /\ pc' = "load_ref"
    /\ UNCHANGED <<reads, error, ref_counter, ref_skipped, diff_counter,
                   tally, nvars>>

\* The loop is over: return Counter(words), skipped (line 178).
ReturnTarget ==
    /\ pc = "extract_target"
    /\ target_counter' = CounterOf(words)
    /\ target_skipped' = skipped
    /\ words' = <<>>
    /\ skipped' = <<>>
    /\ ntok' = 0
    /\ token' = NoToken
    /\ pc' = "load_ref"
    /\ UNCHANGED <<reads, error, ref_counter, ref_skipped, diff_counter, files,
                   tally, nvars>>

ReturnRef ==
    /\ pc = "extract_ref"
    /\ ref_counter' = CounterOf(words)
    /\ ref_skipped' = skipped
    /\ words' = <<>>
    /\ skipped' = <<>>
    /\ ntok' = 0
    /\ token' = NoToken
    /\ pc' = "save_target"
    /\ UNCHANGED <<reads, error, target_counter, target_skipped, diff_counter,
                   files, tally, nvars>>

\* SaveFile with the paths of the second and third save exchanged.
SaveFileExchanged(at) ==
    CASE at = "save_target" -> target_csv
      [] at = "save_ref" -> target_skipped_csv
      [] at = "save_target_skipped" -> ref_csv
      [] at = "save_ref_skipped" -> ref_skipped_csv
      [] at = "save_diff" -> diff_csv

\* What the save at `at` writes, and where.
SaveFile(at) ==
    CASE at = "save_target" -> target_csv
      [] at = "save_ref" -> ref_csv
      [] at = "save_target_skipped" -> target_skipped_csv
      [] at = "save_ref_skipped" -> ref_skipped_csv
      [] at = "save_diff" -> diff_csv

SaveRows(at) ==
    CASE at = "save_target" -> WordRows(target_counter)
      [] at = "save_ref" -> WordRows(ref_counter)
      [] at = "save_target_skipped" -> SkippedRows(target_skipped)
      [] at = "save_ref_skipped" -> SkippedRows(ref_skipped)
      [] at = "save_diff" -> WordRows(diff_counter)

SavePoints ==
    {"save_target", "save_ref", "save_target_skipped", "save_ref_skipped",
     "save_diff"}

\* save_to_csv / save_skipped_to_csv succeeds.
Save(at, to) ==
    /\ pc = at
    /\ files' = [files EXCEPT ![SaveFile(at)] =
                    [state |-> "written", rows |-> SaveRows(at)]]
    /\ pc' = to
    /\ UNCHANGED <<reads, error, token, ntok, words, skipped, target_counter,
                   target_skipped, ref_counter, ref_skipped, diff_counter,
                   tally, nvars>>

SaveTarget == Save("save_target", "save_ref")
SaveRef == Save("save_ref", "save_target_skipped")
SaveTargetSkipped == Save("save_target_skipped", "save_ref_skipped")
SaveRefSkipped == Save("save_ref_skipped", "diff")
SaveDiff == Save("save_diff", "done")

\* mkdir or open raises: the file is not created.
SaveFailsToOpen ==
    /\ pc \in SavePoints
    /\ error' = SaveFile(pc)
    /\ pc' = "aborted"
    /\ UNCHANGED <<reads, token, ntok, words, skipped, target_counter,
                   target_skipped, ref_counter, ref_skipped, diff_counter,
                   files, tally, nvars>>

\* A write raises after open created the file: it is left with the rows
\* written so far.
SaveFailsToWrite ==
    /\ pc \in SavePoints
    /\ \E n \in 0..(Len(SaveRows(pc)) - 1) :
          files' = [files EXCEPT ![SaveFile(pc)] =
                       [state |-> "partial", rows |-> SubSeq(SaveRows(pc), 1, n)]]
    /\ error' = SaveFile(pc)
    /\ pc' = "aborted"
    /\ UNCHANGED <<reads, token, ntok, words, skipped, target_counter,
                   target_skipped, ref_counter, ref_skipped, diff_counter,
                   tally, nvars>>

\* diff_counter = find_difference(target_counter, ref_counter) (line 262)
ComputeDiff ==
    /\ pc = "diff"
    /\ diff_counter' = find_difference(target_counter, ref_counter)
    /\ pc' = "save_diff"
    /\ UNCHANGED <<reads, error, token, ntok, words, skipped, target_counter,
                   target_skipped, ref_counter, ref_skipped, files, tally, nvars>>

Next ==
    \/ LoadTarget
    \/ LoadRef
    \/ LoadFails
    \/ \E tok \in MainTokens : ProcessToken(tok)
    \/ ReturnTarget
    \/ ReturnRef
    \/ SaveTarget
    \/ SaveRef
    \/ SaveTargetSkipped
    \/ SaveRefSkipped
    \/ ComputeDiff
    \/ SaveDiff
    \/ SaveFailsToOpen
    \/ SaveFailsToWrite

Spec == Init /\ [][Next]_vars

(***************************************************************************)
(* extract_lemmas on a document of one token, the token any of Tokens.     *)
(***************************************************************************)
FilterToken == ntok = 0 /\ \E tok \in Tokens : ProcessToken(tok)

FilterNext ==
    \/ LoadTarget
    \/ FilterToken

SpecFilter == Init /\ [][FilterNext]_vars

(***************************************************************************)
(* Properties of normalize_text, checked under SpecNorm.                   *)
(***************************************************************************)
CJKChars(t) == SelectSeq(t, InCJKRange)

CJKCharsKept(t) == SelectSeq(t, LAMBDA c : InCJKRange(c) /\ c # "U+30FB")

Has(t, c) == \E i \in 1..Len(t) : t[i] = c

AfterNFKC == npc \notin {"idle", "nfkc"}

\* C5, as claimed: no statement of normalize_text alters a character of the
\* _CJK_RE ranges, so the CJK characters of the text are, at every statement
\* and in the result, those of the input, in the same order.
C5_CJKUntouched == AfterNFKC => CJKChars(normalized) = CJKChars(raw)

\* C5, amended: the statements after the NFKC normalization leave every
\* character of the _CJK_RE ranges other than U+30FB as NFKC left it (U+30FB
\* is replaced by a space, and NFKC itself rewrites some of them).
C5_CJKUntouchedAfterNFKC ==
    AfterNFKC => CJKCharsKept(normalized) = CJKCharsKept(NFKC(raw))

\* C5: a text with a kana letter, which is kept, beside a katakana middle dot,
\* which is not, has been normalized.
C5_Witness ==
    /\ npc = "return"
    /\ Has(raw, "U+3042") /\ Has(raw, "U+30FB")
    /\ Has(normalized, "U+3042") /\ ~ Has(normalized, "U+30FB")

\* C6: normalize_text is idempotent: normalizing its result returns the result.
C6_Idempotent == npc = "again" => renormalized = normalized

\* C6: a text that normalization lengthens (spacing was inserted) has been
\* normalized twice.
C6_Witness ==
    /\ npc = "again"
    /\ Len(normalized) > Len(raw)
    /\ Has(normalized, " ")

\* What the punctuation replacements are claimed to produce from the input.
ClaimedPunctChar(c) ==
    CASE c \in {"U+FF0C", "U+3001"} -> <<",", " ">>
      [] c \in {"U+FF0E", "U+3002"} -> <<".", " ">>
      [] OTHER -> NFKCChar(c)

\* C9: once the punctuation replacements have run, every fullwidth or
\* ideographic comma of the input has become a comma and a space, and every
\* fullwidth or ideographic full stop a full stop and a space.
C9_PunctuationSpaced ==
    npc = "symbols" =>
        normalized = Flatten([i \in 1..Len(raw) |-> ClaimedPunctChar(raw[i])])

(***************************************************************************)
(* Properties of the token filter, checked under SpecFilter.               *)
(***************************************************************************)
SkipPriority ==
    << "contains_cjk", "empty", "contains_dot", "contains_colon",
       "contains_brackets", "currency_amount", "single_letter", "no_alnum" >>

RuleMatches(rule, text, lemma) ==
    CASE rule = "contains_cjk" -> _contains_cjk(text) \/ _contains_cjk(lemma)
      [] rule = "empty" -> lemma = <<>>
      [] rule = "contains_dot" -> Has(lemma, ".")
      [] rule = "contains_colon" -> Has(lemma, ":")
      [] rule = "contains_brackets" -> \E c \in BracketChars : Has(lemma, c)
      [] rule = "currency_amount" -> MatchesCurrencyAmount(lemma)
      [] rule = "single_letter" -> Len(lemma) = 1 /\ lemma # <<"a">>
      [] rule = "no_alnum" ->
            \A i \in 1..Len(lemma) : ~ IsAlpha(lemma[i]) /\ ~ IsDigit(lemma[i])

\* The first rule of SkipPriority that matches, None if none does.
FirstReason(text, lemma) ==
    LET hits == {k \in 1..Len(SkipPriority) : RuleMatches(SkipPriority[k], text, lemma)}
    IN IF hits = {} THEN None
       ELSE SkipPriority[CHOOSE k \in hits : \A h \in hits : k <= h]

\* The token is punctuation, whitespace or a number.
Dropped(tok) ==
    tok.is_punct \/ tok.is_space \/ tok.like_num \/ TextIsDigit(tok.text)

\* C2: a token ends in exactly one of: dropped (no trace), skipped (one
\* record in `skipped`) or counted (one entry of `words`); and a skipped
\* token's record carries the first matching rule of the priority order.
C2_OneOutcomeFirstReason ==
    ntok = 1 =>
        LET lemma == Lower(token.lemma_)
            first == FirstReason(token.text, lemma)
        IN /\ Len(words) + Total(skipped) <= 1
           /\ Dropped(token) => words = <<>> /\ skipped = <<>>
           /\ (~ Dropped(token) /\ first # None) =>
                 /\ skipped = << <<(<<token.text, lemma, first>>), 1>> >>
                 /\ words = <<>>
           /\ skipped # <<>> => ~ Dropped(token) /\ first # None
           /\ words # <<>> => ~ Dropped(token) /\ first = None

\* C2: a token whose lemma matches two rules (a dot and a colon) has been
\* skipped.
C2_Witness ==
    /\ ntok = 1
    /\ Has(token.lemma_, ".") /\ Has(token.lemma_, ":")
    /\ skipped # <<>>

\* C10: the fallback drop is never taken: a token that is neither dropped
\* as punctuation, whitespace or number nor skipped has a non-empty lemma
\* with an alphanumeric character and is counted; so a token that leaves no
\* trace is punctuation, whitespace or a number.
C10_FallbackUnreachable ==
    ntok = 1 =>
        LET lemma == Lower(token.lemma_)
        IN /\ (~ Dropped(token) /\ skipped = <<>>) =>
                 /\ lemma # <<>>
                 /\ \E i \in 1..Len(lemma) : IsAlnum(lemma[i])
                 /\ words = <<lemma>>
           /\ (words = <<>> /\ skipped = <<>>) => Dropped(token)

\* C10: a token that passed every rule has been counted.
C10_Witness ==
    /\ ntok = 1
    /\ ~ Dropped(token)
    /\ skipped = <<>>
    /\ words = <<Lower(token.lemma_)>>

(***************************************************************************)
(* Properties of the pipeline, checked under Spec.                         *)
(***************************************************************************)
TargetReturned ==
    /\ pc \notin {"idle", "load_target", "extract_target"}
    /\ ~ (pc = "aborted" /\ error = "target")

RefReturned ==
    \/ pc \in SavePoints \cup {"diff", "done"}
    \/ pc = "aborted" /\ error \in FileNames

DiffComputed ==
    \/ pc \in {"save_diff", "done"}
    \/ pc = "aborted" /\ error = diff_csv

NoDuplicateKeys(counter) == Cardinality(Keys(counter)) = Len(counter)

\* C1: the diff holds exactly the lemmas that are keys of the target's table
\* and not of the reference's, each with the target's count.
C1_PresenceOnlyDiff ==
    DiffComputed =>
        /\ Keys(diff_counter) = Keys(target_counter) \ Keys(ref_counter)
        /\ NoDuplicateKeys(diff_counter)
        /\ \A w \in Keys(diff_counter) :
              Count(diff_counter, w) = Count(target_counter, w)

\* C1: a diff was computed from tables that share a lemma with different
\* counts and differ in another lemma.
C1_Witness ==
    /\ DiffComputed
    /\ diff_counter # <<>>
    /\ \E w \in Keys(target_counter) \cap Keys(ref_counter) :
          Count(target_counter, w) # Count(ref_counter, w)

AllWritten == \A n \in FileNames : files[n].state = "written"
NoneWritten == \A n \in FileNames : files[n] = Absent

NoneComplete == \A n \in FileNames : files[n].state # "written"

\* C3, as claimed: a run that ended has written every output file or none
\* (a file that a failed save left empty or cut short not counted as written).
C3_AllOrNothing == pc \in {"done", "aborted"} => AllWritten \/ NoneComplete

SavePosition(n) == CHOOSE k \in 1..Len(SaveOrder) : SaveOrder[k] = n

\* C3, amended: a run that ended has written every output file, or was
\* aborted by the first failing file access: by an input, with no output
\* file, or by the k-th save, with the files of the saves before it complete,
\* its own file absent or partial, and the files of the later saves absent.
C3_WrittenUpToFailure ==
    /\ pc = "done" => AllWritten
    /\ (pc = "aborted" /\ error \in {"target", "ref"}) => NoneWritten
    /\ (pc = "aborted" /\ error \in FileNames) =>
          \A n \in FileNames :
             /\ SavePosition(n) < SavePosition(error) => files[n].state = "written"
             /\ SavePosition(n) = SavePosition(error) =>
                   files[n].state \in {"absent", "partial"}
             /\ SavePosition(n) > SavePosition(error) => files[n] = Absent

\* C3: the third save failed after the first two files were written.
C3_Witness ==
    /\ pc = "aborted"
    /\ error = target_skipped_csv
    /\ files[target_csv].state = "written"
    /\ files[ref_csv].state = "written"

\* C4: an input that cannot be read ends the run with no output file; no
\* input is opened twice; the target is opened before the reference, and
\* both were read and processed before any output file exists.
C4_InputErrorNoOutput ==
    /\ (pc = "aborted" /\ error \in {"target", "ref"}) => NoneWritten
    /\ \A f \in {"target", "ref"} : reads[f] <= 1
    /\ reads["ref"] = 1 => reads["target"] = 1
    /\ ~ NoneWritten => TargetReturned /\ RefReturned

\* C4: the reference could not be read after the target was processed.
C4_Witness ==
    /\ pc = "aborted"
    /\ error = "ref"
    /\ target_counter # <<>>

TableComplete(counter, skips, t) ==
    /\ Total(counter) = t.counted
    /\ Keys(counter) = t.lemmas
    /\ NoDuplicateKeys(counter)
    /\ Total(skips) = t.skipped
    /\ Keys(skips) = t.keys
    /\ NoDuplicateKeys(skips)

\* C7: the tables extract_lemmas returned for a file hold what that file's
\* tokens put there: the counts sum to the number of tokens counted (or
\* skipped), and each lemma counted (or triple skipped) is a key once.
C7_TablesComplete ==
    /\ TargetReturned => TableComplete(target_counter, target_skipped, tally["target"])
    /\ RefReturned => TableComplete(ref_counter, ref_skipped, tally["ref"])

\* C7: both files were processed, the target counting a lemma twice and the
\* reference holding other lemmas and skipped tokens.
C7_Witness ==
    /\ RefReturned
    /\ \E w \in Keys(target_counter) : Count(target_counter, w) = 2
    /\ tally["target"].counted = 3
    /\ Keys(ref_counter) # {} /\ Keys(ref_counter) # Keys(target_counter)
    /\ ref_skipped # <<>>

\* The table a file is written from, and the key and frequency of a row.
TableOf(n) ==
    CASE n = target_csv -> target_counter
      [] n = ref_csv -> ref_counter
      [] n = diff_csv -> diff_counter
      [] n = target_skipped_csv -> target_skipped
      [] n = ref_skipped_csv -> ref_skipped

RowKey(n, row) ==
    IF n \in {target_skipped_csv, ref_skipped_csv}
    THEN <<row[1], row[2], row[3]>> ELSE row[1]

RowFreq(row) == row[Len(row)]

\* The order of first sight: in the table, and for the diff in the target.
FirstSeen(n, key) ==
    IF n = diff_csv THEN IndexOf(target_counter, key) ELSE IndexOf(TableOf(n), key)

\* C8: a written file holds, after its header, one row per key of its table
\* with the key's count, in descending order of frequency, rows of equal
\* frequency in the order in which their keys were first seen.
C8_RowsSorted ==
    \A n \in FileNames :
        files[n].state = "written" =>
            LET rows == files[n].rows
                table == TableOf(n)
            IN /\ Len(rows) = 1 + Len(table)
               /\ rows[1][Len(rows[1])] = "frequency"
               /\ {RowKey(n, rows[k]) : k \in 2..Len(rows)} = Keys(table)
               /\ \A k \in 2..Len(rows) :
                     RowFreq(rows[k]) = Count(table, RowKey(n, rows[k]))
               /\ \A j, k \in 2..Len(rows) :
                     j < k =>
                        \/ RowFreq(rows[j]) > RowFreq(rows[k])
                        \/ /\ RowFreq(rows[j]) = RowFreq(rows[k])
                           /\ FirstSeen(n, RowKey(n, rows[j])) <
                              FirstSeen(n, RowKey(n, rows[k]))

\* C8: every file is written, the target's (and so the diff's) rows in
\* another order than its table, the reference's skipped rows tied.
C8_Witness ==
    /\ pc = "done"
    /\ most_common(target_counter) # target_counter
    /\ Len(diff_counter) = 2
    /\ Len(ref_skipped) = 2
    /\ ref_skipped[1][2] = ref_skipped[2][2]

====
